---- MODULE Spec2Model ----
(***************************************************************************)
(* The conversational session manager of the MOSDAC chat front end:        *)
(* the useChat hook (src/src/hooks/useChat.ts), the handlers of App,       *)
(* Sidebar and ChatInput that call it, the APIService request it awaits    *)
(* and the local fallback generator getMockResponse.                       *)
(*                                                                         *)
(* React state is modelled as committed values.  A handler runs with the   *)
(* closure of the last render (the currentSessionId it captured), its      *)
(* queued updaters are applied in order when it returns, and the save      *)
(* effect runs on the resulting render; all of that is one action.  A      *)
(* synchronous run of a handler reads one clock value.  lastDeleted is a    *)
(* history variable: the id of the session deleted while it was current,   *)
(* kept for as long as no session has been made current since.             *)
(*                                                                         *)
(* download is the file exportData last handed to the browser; mockQuery   *)
(* and mockResponse are the argument and the result of a getMockResponse   *)
(* call made on its own.  mount holds the effects the mounting hook has    *)
(* still to run ("load", "save" for its first render, "saveLoaded" for the *)
(* render the load effect asked for) and what the load effect left behind  *)
(* ("logged" for a console diagnostic, "raised" for an exception that      *)
(* escaped it); it is empty in a hook that mounted on an empty store.      *)
(*                                                                         *)
(* Strings are sequences of one-character strings.  Dates and Date.now()   *)
(* are integers (milliseconds).  An optional field is None (undefined) or  *)
(* Some(v).  Confidences are in hundredths.                                *)
(***************************************************************************)
EXTENDS Integers, Sequences, FiniteSets, TLC

VARIABLES sessions, currentSessionId, isLoading, now, calls, stored, lastDeleted,
          download, mockQuery, mockResponse, mount

vars == <<sessions, currentSessionId, isLoading, now, calls, stored, lastDeleted,
          download, mockQuery, mockResponse, mount>>

\* what the operations of a mounted session manager do not touch: the last
\* file exportData offered for download, the argument and result of a
\* getMockResponse call made on its own, and the effects of mounting
aside == <<download, mockQuery, mockResponse, mount>>

----------------------------------------------------------------------------
(* Bounds of the model *)

MaxClock == 1

MaxSessions == 2

MaxCalls == 2

\* words in a query handed to getMockResponse on its own
MaxWords == 2

----------------------------------------------------------------------------
(* Values *)

Null == "<null>"

None == <<>>

Some(v) == <<v>>

NoBlob == <<>>

NewChatTitle == <<"N", "e", "w", " ", "C", "h", "a", "t">>

TitleSliceEnd == 50

Whitespace == {" ", "\t", "\n"}

\* one text, longer than the title limit and naming a keyword of the fallback
Texts == { <<"I", "N", "S", "A", "T">> \o [k \in 1..(TitleSliceEnd - 3) |-> "."] }

EditTitles == { <<" ", " ">>, <<" ", "a", " ">> }

\* the selections of the file picker: two files at once (one file is a
\* sendMessage of its text)
FileLists == { << <<"f">>, <<"g">> >> }

StaleId == "x"

\* the words the queries of a lone getMockResponse call are made of: the two
\* keywords in several spellings, pieces of them, and words that hit nothing
QueryWords ==
    { <<"i", "n", "s", "a", "t">>, <<"I", "N", "S", "A", "T">>,
      <<"w", "e", "a", "t", "h", "e", "r">>, <<"W", "e", "A", "t", "H", "e", "r">>,
      <<"i", "n", "s">>, <<"a", "t">>, <<" ">>, <<"s", "e", "a">> }

RECURSIVE Phrases(_)
Phrases(n) ==
    IF n = 0 THEN { <<>> }
    ELSE LET shorter == Phrases(n - 1)
         IN  shorter \cup { p \o w : p \in shorter, w \in QueryWords }

Queries == Phrases(MaxWords)

----------------------------------------------------------------------------
(* String helpers *)

Min(a, b) == IF a < b THEN a ELSE b

\* String.prototype.slice(0, n)
Slice(s, n) == SubSeq(s, 1, Min(n, Len(s)))

RECURSIVE TrimStart(_)
TrimStart(s) ==
    IF s = <<>> THEN <<>>
    ELSE IF Head(s) \in Whitespace THEN TrimStart(Tail(s)) ELSE s

RECURSIVE TrimEnd(_)
TrimEnd(s) ==
    IF s = <<>> THEN <<>>
    ELSE IF s[Len(s)] \in Whitespace THEN TrimEnd(SubSeq(s, 1, Len(s) - 1)) ELSE s

\* String.prototype.trim()
Trim(s) == TrimEnd(TrimStart(s))

\* JavaScript truthiness of a string or null: null and "" are falsy
Falsy(s) == s = Null \/ s = ""

\* Date.now().toString()
IdOf(t) == ToString(t)

----------------------------------------------------------------------------
(* Persistence.  The blob is modelled as the JSON value it denotes:           *)
(* JSON.stringify turns every Date into its ISO string and leaves out the     *)
(* properties whose value is undefined; JSON.parse gives that value back.     *)
(* The call index of a message stays attached to it.                          *)

\* the time value of an invalid Date (NaN)
InvalidDate == -1

\* a Date in JSON.stringify: its ISO string, or null for an invalid Date
ToISO(t) == IF t = InvalidDate THEN <<"null", 0>> ELSE <<"iso", t>>

\* new Date(value) of a parsed value: an ISO string gives its date, null
\* gives the epoch, any other text gives an invalid Date; it never throws
NewDate(iso) ==
    IF iso[1] = "iso" THEN iso[2]
    ELSE IF iso[1] = "null" THEN 0
    ELSE InvalidDate

\* the properties of m among keys that are defined, with their values
Defined(m, keys) == [k \in { k \in keys : m[k] # None } |-> m[k][1]]

\* reading a property that may be absent
Prop(o, k) == IF k \in DOMAIN o THEN Some(o[k]) ELSE None

SerializeMessage(m) ==
    [id |-> m.id, text |-> m.text, sender |-> m.sender,
     timestamp |-> ToISO(m.timestamp), call |-> m.call]
        @@ Defined(m, {"sources", "entities", "confidence"})

SerializeSession(s) ==
    [s EXCEPT !.createdAt = ToISO(@),
              !.updatedAt = ToISO(@),
              !.messages = [i \in 1..Len(@) |-> SerializeMessage(@[i])]]

\* JSON.stringify(sessions)
Serialize(sess) == [i \in 1..Len(sess) |-> SerializeSession(sess[i])]

\* a stored text that is not JSON
Unparseable == << [json |-> "unparseable"] >>

\* a stored text that is JSON for something other than an array
NotArray == << [json |-> "notArray"] >>

\* null where an object is expected
JsonNull == [json |-> "null"]

reviveMessage_DropsOptional(m) ==
    [id |-> m.id, text |-> m.text, sender |-> m.sender,
     timestamp |-> NewDate(m.timestamp), call |-> m.call,
     sources |-> None, entities |-> None, confidence |-> None]

\* { ...m, timestamp: new Date(m.timestamp) }
reviveMessage(m) ==
    [id |-> m.id, text |-> m.text, sender |-> m.sender,
     timestamp |-> NewDate(m.timestamp), call |-> m.call,
     sources |-> Prop(m, "sources"), entities |-> Prop(m, "entities"),
     confidence |-> Prop(m, "confidence")]

reviveSession(s) ==
    [s EXCEPT !.createdAt = NewDate(@),
              !.updatedAt = NewDate(@),
              !.messages = [i \in 1..Len(@) |-> reviveMessage(@[i])]]

\* reviving the entry throws a TypeError: the entry is null (s.createdAt), it
\* has no messages (s.messages.map), or one of its messages is null
\* (m.timestamp)
reviveThrows(s) ==
    \/ s = JsonNull
    \/ "messages" \notin DOMAIN s
    \/ \E k \in 1..Len(s.messages) : s.messages[k] = JsonNull

\* the try block of the load effect: JSON.parse, then parsed.map over the
\* entries; setSessions is reached only when nothing threw
parseSessions_SkipsBadEntries(blob) ==
    IF blob = Unparseable \/ blob = NotArray
    THEN [threw |-> TRUE]
    ELSE [threw |-> FALSE,
          value |-> LET good == SelectSeq(blob, LAMBDA s : ~reviveThrows(s))
                    IN  [i \in 1..Len(good) |-> reviveSession(good[i])]]

parseSessions(blob) ==
    IF blob = Unparseable \/ blob = NotArray
           \/ \E i \in 1..Len(blob) : reviveThrows(blob[i])
    THEN [threw |-> TRUE]
    ELSE [threw |-> FALSE, value |-> [i \in 1..Len(blob) |-> reviveSession(blob[i])]]

\* the load effect on the collection sess: nothing without a stored text;
\* otherwise the parsed and revived sessions replace the collection, or the
\* catch logs what the try block threw and the collection stays
loadEffect(sess, blob) ==
    IF blob = NoBlob
    THEN [sessions |-> sess, set |-> FALSE, logged |-> FALSE, raised |-> FALSE]
    ELSE LET try == parseSessions(blob)
         IN  IF try.threw
             THEN [sessions |-> sess, set |-> FALSE, logged |-> TRUE, raised |-> FALSE]
             ELSE [sessions |-> try.value, set |-> TRUE, logged |-> FALSE,
                   raised |-> FALSE]

\* the save effect: writes only a non-empty collection
SaveEffect_Always(sess, blob) == Serialize(sess)

SaveEffect(sess, blob) == IF Len(sess) > 0 THEN Serialize(sess) ELSE blob

----------------------------------------------------------------------------
(* The hook's operations on the React state st = [sessions, currentSessionId, *)
(* isLoading, calls]; cid is the currentSessionId the closure captured        *)

currentSession(sess, cid) ==
    IF \E i \in 1..Len(sess) : sess[i].id = cid
    THEN Some(sess[CHOOSE i \in 1..Len(sess) :
                     sess[i].id = cid /\ \A j \in 1..(i - 1) : sess[j].id # cid])
    ELSE None

NewSession(t) ==
    [id |-> IdOf(t), title |-> NewChatTitle, messages |-> <<>>,
     createdAt |-> t, updatedAt |-> t]

createNewSession_AtTail(st, t) ==
    [st EXCEPT !.sessions = @ \o <<NewSession(t)>>,
               !.currentSessionId = NewSession(t).id]

createNewSession(st, t) ==
    [st EXCEPT !.sessions = <<NewSession(t)>> \o @,
               !.currentSessionId = NewSession(t).id]

selectSession(st, sessionId) ==
    [st EXCEPT !.currentSessionId = sessionId]

deleteSession_KeepsPointer(st, cid, sessionId) ==
    [st EXCEPT !.sessions = SelectSeq(@, LAMBDA s : s.id # sessionId)]

deleteSession(st, cid, sessionId) ==
    [st EXCEPT !.sessions = SelectSeq(@, LAMBDA s : s.id # sessionId),
               !.currentSessionId = IF cid = sessionId THEN Null ELSE @]

renameSession_KeepsDate(st, sessionId, newTitle, t) ==
    [st EXCEPT !.sessions =
        [i \in 1..Len(@) |->
            IF @[i].id = sessionId THEN [@[i] EXCEPT !.title = newTitle] ELSE @[i]]]

renameSession(st, sessionId, newTitle, t) ==
    [st EXCEPT !.sessions =
        [i \in 1..Len(@) |->
            IF @[i].id = sessionId
            THEN [@[i] EXCEPT !.title = newTitle, !.updatedAt = t]
            ELSE @[i]]]

----------------------------------------------------------------------------
(* The fallback generator (mockData.ts) and the remote answers *)

mockSources == <<"src0", "src1">>

mockEntities == <<"ent0", "ent1", "ent2">>

\* the lower-case forms of the capital letters the texts of the model use
LowerOf ==
    [c \in {"I", "N", "S", "A", "T", "W", "E", "H", "R"} |->
        CASE c = "I" -> "i" [] c = "N" -> "n" [] c = "S" -> "s"
          [] c = "A" -> "a" [] c = "T" -> "t" [] c = "W" -> "w"
          [] c = "E" -> "e" [] c = "H" -> "h" [] c = "R" -> "r"]

\* String.prototype.toLowerCase()
toLowerCase(s) ==
    [i \in 1..Len(s) |-> IF s[i] \in DOMAIN LowerOf THEN LowerOf[s[i]] ELSE s[i]]

\* String.prototype.includes(k)
includes(s, k) ==
    \E i \in 0..(Len(s) - Len(k)) : SubSeq(s, i + 1, i + Len(k)) = k

mockBotResponses ==
    << [query |-> <<"i", "n", "s", "a", "t">>,
        answer |-> None, response |-> Some(<<"I", "N", "S", "A", "T", "-", "3", "D">>),
        sources |-> mockSources, entities |-> mockEntities, confidence |-> 92],
       [query |-> <<"w", "e", "a", "t", "h", "e", "r">>,
        answer |-> None, response |-> Some(<<"M", "O", "S", "D", "A", "C">>),
        sources |-> SubSeq(mockSources, 1, 1), entities |-> SubSeq(mockEntities, 2, 2),
        confidence |-> 88] >>

DefaultResponse(query) ==
    [query |-> None,
     answer |-> None, response |-> Some(<<"?", "\"">> \o query \o <<"\"">>),
     sources |-> mockSources, entities |-> <<>>, confidence |-> 75]

getMockResponse_LastHit(query) ==
    LET lowerQuery == toLowerCase(query)
        hits == { i \in 1..Len(mockBotResponses) :
                    includes(lowerQuery, mockBotResponses[i].query) }
    IN  IF hits # {}
        THEN mockBotResponses[CHOOSE i \in hits : \A j \in hits : i >= j]
        ELSE DefaultResponse(query)

getMockResponse(query) ==
    LET lowerQuery == toLowerCase(query)
        hits == { i \in 1..Len(mockBotResponses) :
                    includes(lowerQuery, mockBotResponses[i].query) }
    IN  IF hits # {}
        THEN mockBotResponses[CHOOSE i \in hits : \A j \in hits : i <= j]
        ELSE DefaultResponse(query)

\* what APIService.sendMessage resolves with: a QueryResponse, or a body that
\* is JSON null (response.json() yields whatever the server sent)
ApiBodies ==
    { [isNull |-> FALSE, answer |-> Some(<<"o", "k">>), response |-> None,
       sources |-> <<"srcR">>, entities |-> <<>>, confidence |-> 90],
      [isNull |-> TRUE] }

UndefinedText == <<"undefined">>

AnswerText_AnswerOnly(response) ==
    IF response.answer # None /\ response.answer[1] # <<>>
    THEN response.answer[1]
    ELSE UndefinedText

\* response.answer || response.response
AnswerText(response) ==
    IF response.answer # None /\ response.answer[1] # <<>>
    THEN response.answer[1]
    ELSE IF response.response # None THEN response.response[1] ELSE UndefinedText

ApologyText == <<"S", "o", "r", "r", "y">>

----------------------------------------------------------------------------
(* sendMessage *)

userMessageOf(text, t, c) ==
    [id |-> IdOf(t), text |-> text, sender |-> "user", timestamp |-> t,
     sources |-> None, entities |-> None, confidence |-> None, call |-> c]

botMessageOf(response, t, c) ==
    [id |-> IdOf(t + 1), text |-> AnswerText(response), sender |-> "bot",
     timestamp |-> t, sources |-> Some(response.sources),
     entities |-> Some(response.entities),
     confidence |-> Some(response.confidence), call |-> c]

errorMessageOf(t, c) ==
    [id |-> IdOf(t + 1), text |-> ApologyText, sender |-> "bot",
     timestamp |-> t, sources |-> None, entities |-> None,
     confidence |-> Some(10), call |-> c]

addUserMessage_Restarts(sess, sessionId, userMessage, text, t) ==
    [i \in 1..Len(sess) |->
        IF sess[i].id = sessionId
        THEN [sess[i] EXCEPT !.messages = <<userMessage>>,
                             !.updatedAt = t,
                             !.title = IF Len(sess[i].messages) = 0
                                       THEN Slice(text, TitleSliceEnd) ELSE @]
        ELSE sess[i]]

addUserMessage_AlwaysTitles(sess, sessionId, userMessage, text, t) ==
    [i \in 1..Len(sess) |->
        IF sess[i].id = sessionId
        THEN [sess[i] EXCEPT !.messages = Append(@, userMessage),
                             !.updatedAt = t,
                             !.title = Slice(text, TitleSliceEnd)]
        ELSE sess[i]]

\* the updater that adds the user message (and titles an empty session)
addUserMessage(sess, sessionId, userMessage, text, t) ==
    [i \in 1..Len(sess) |->
        IF sess[i].id = sessionId
        THEN [sess[i] EXCEPT !.messages = Append(@, userMessage),
                             !.updatedAt = t,
                             !.title = IF Len(sess[i].messages) = 0
                                       THEN Slice(text, TitleSliceEnd) ELSE @]
        ELSE sess[i]]

\* puts the reply right behind the user message it answers
addBotMessage_AfterQuestion(sess, sessionId, message, t) ==
    [i \in 1..Len(sess) |->
        IF sess[i].id = sessionId
        THEN LET asked == { k \in 1..Len(sess[i].messages) :
                              sess[i].messages[k].call = message.call }
                 at == IF asked = {} THEN Len(sess[i].messages)
                       ELSE CHOOSE k \in asked : \A l \in asked : l <= k
             IN  [sess[i] EXCEPT
                     !.messages = SubSeq(@, 1, at) \o <<message>>
                                      \o SubSeq(@, at + 1, Len(@)),
                     !.updatedAt = t]
        ELSE sess[i]]

addBotMessage_ToCurrent(sess, sessionId, message, t) ==
    [i \in 1..Len(sess) |->
        IF sess[i].id = currentSessionId
        THEN [sess[i] EXCEPT !.messages = Append(@, message), !.updatedAt = t]
        ELSE sess[i]]

addBotMessage_Prepends(sess, sessionId, message, t) ==
    [i \in 1..Len(sess) |->
        IF sess[i].id = sessionId
        THEN [sess[i] EXCEPT !.messages = <<message>> \o @, !.updatedAt = t]
        ELSE sess[i]]

\* the updater that adds the bot message or the apology
addBotMessage(sess, sessionId, message, t) ==
    [i \in 1..Len(sess) |->
        IF sess[i].id = sessionId
        THEN [sess[i] EXCEPT !.messages = Append(@, message), !.updatedAt = t]
        ELSE sess[i]]

\* the synchronous part of sendMessage, up to the first await
sendMessage(st, cid, text, t) ==
    LET fresh == Falsy(cid)
        st1 == IF fresh THEN createNewSession(st, t) ELSE st
        sessionId == IF fresh THEN NewSession(t).id ELSE cid
        c == Len(st.calls) + 1
    IN  [st1 EXCEPT
            !.sessions = addUserMessage(@, sessionId, userMessageOf(text, t, c), text, t),
            !.isLoading = TRUE,
            !.calls = Append(@, [sessionId |-> sessionId, text |-> text,
                                 pc |-> "awaitApi"])]

settle_Rethrows(st, c, response, t) ==
    [st EXCEPT
        !.sessions = IF response.isNull THEN @
                     ELSE addBotMessage(@, st.calls[c].sessionId,
                                        botMessageOf(response, t, c), t),
        !.isLoading = IF response.isNull THEN @ ELSE FALSE,
        !.calls[c].pc = IF response.isNull THEN "apologized"
                        ELSE IF st.calls[c].pc = "awaitDelay" THEN "fellBack"
                        ELSE "answered"]

settle_KeepsLoading(st, c, response, t) ==
    [st EXCEPT
        !.sessions = addBotMessage(@, st.calls[c].sessionId,
                        IF response.isNull THEN errorMessageOf(t, c)
                        ELSE botMessageOf(response, t, c), t),
        !.calls[c].pc = IF response.isNull THEN "apologized"
                        ELSE IF st.calls[c].pc = "awaitDelay" THEN "fellBack"
                        ELSE "answered"]

\* the continuation once a response is at hand: build and add the bot message,
\* or catch the TypeError of reading a field of null and add the apology
settle(st, c, response, t) ==
    [st EXCEPT
        !.sessions = addBotMessage(@, st.calls[c].sessionId,
                        IF response.isNull THEN errorMessageOf(t, c)
                        ELSE botMessageOf(response, t, c), t),
        !.isLoading = FALSE,
        !.calls[c].pc = IF response.isNull THEN "apologized"
                        ELSE IF st.calls[c].pc = "awaitDelay" THEN "fellBack"
                        ELSE "answered"]

----------------------------------------------------------------------------
(* The handlers of the components *)

handleFinishEdit_Untrimmed(st, sessionId, editingTitle, t) ==
    IF editingTitle # <<>>
    THEN renameSession(st, sessionId, Trim(editingTitle), t)
    ELSE st

\* Sidebar.handleFinishEdit: the only caller of renameSession
handleFinishEdit(st, sessionId, editingTitle, t) ==
    IF Trim(editingTitle) # <<>>
    THEN renameSession(st, sessionId, Trim(editingTitle), t)
    ELSE st

\* App.handleQuickStart: createNewSession and sendMessage run with the same
\* closure, so sendMessage still sees the currentSessionId of the last render
handleQuickStart(st, cid, query, t) ==
    sendMessage(IF Falsy(cid) THEN createNewSession(st, t) ELSE st, cid, query, t)

\* the text App.handleFileUpload synthesizes for a file
FileMessage(file) == <<"F", ":">> \o file

\* App.handleFileUpload: one sendMessage per file, all with the same closure
RECURSIVE handleFileUpload(_, _, _, _)
handleFileUpload(st, cid, files, t) ==
    IF files = <<>> THEN st
    ELSE handleFileUpload(sendMessage(st, cid, FileMessage(Head(files)), t),
                          cid, Tail(files), t)

----------------------------------------------------------------------------
(* State *)

ReactState ==
    [sessions |-> sessions, currentSessionId |-> currentSessionId,
     isLoading |-> isLoading, calls |-> calls]

\* commit the handler's updates, then run the save effect on the new render
CommitState(st) ==
    /\ sessions' = st.sessions
    /\ currentSessionId' = st.currentSessionId
    /\ isLoading' = st.isLoading
    /\ calls' = st.calls
    /\ stored' = SaveEffect(st.sessions, stored)

Commit(st) ==
    /\ CommitState(st)
    /\ lastDeleted' = IF st.currentSessionId = Null THEN lastDeleted ELSE Null
    /\ UNCHANGED <<now, aside>>

\* the ids a caller can name: those of the sessions on screen, and a stale one
KnownIds == { sessions[i].id : i \in 1..Len(sessions) } \cup { StaleId }

\* room for the sessions a handler may create
Room(cid, n) == Falsy(cid) => Len(sessions) + n <= MaxSessions

\* App renders ChatInput when a current session exists, WelcomeScreen otherwise
ChatInputShown == currentSession(sessions, currentSessionId) # None

Init ==
    /\ sessions = <<>>
    /\ currentSessionId = Null
    /\ isLoading = FALSE
    /\ now = 0
    /\ calls = <<>>
    /\ stored = NoBlob
    /\ lastDeleted = Null
    /\ download = None
    /\ mockQuery = <<>>
    /\ mockResponse = None
    /\ mount = {}

Tick ==
    /\ now < MaxClock
    /\ now' = now + 1
    /\ UNCHANGED <<sessions, currentSessionId, isLoading, calls, stored, lastDeleted>>
    /\ UNCHANGED aside

CreateNewSession ==
    /\ Len(sessions) < MaxSessions
    /\ Commit(createNewSession(ReactState, now))

SelectSessionOf(sessionId) ==
    Commit(selectSession(ReactState, sessionId))

SelectSession == \E sessionId \in KnownIds : SelectSessionOf(sessionId)

DeleteSessionOf(sessionId) ==
    /\ CommitState(deleteSession(ReactState, currentSessionId, sessionId))
    /\ lastDeleted' = IF sessionId = currentSessionId
                         /\ currentSession(sessions, sessionId) # None
                      THEN sessionId ELSE lastDeleted
    /\ UNCHANGED <<now, aside>>

DeleteSession == \E sessionId \in KnownIds : DeleteSessionOf(sessionId)

FinishEdit(i, editingTitle) ==
    Commit(handleFinishEdit(ReactState, sessions[i].id, editingTitle, now))

HandleFinishEdit ==
    \E i \in 1..Len(sessions), editingTitle \in EditTitles : FinishEdit(i, editingTitle)

\* sendMessage called on its own: the hook's API, and what
\* handleLocationShare and handleVoiceInput do with their synthesized text
Send(text) ==
    /\ Len(calls) < MaxCalls
    /\ Room(currentSessionId, 1)
    /\ Commit(sendMessage(ReactState, currentSessionId, text, now))

SendMessage == \E text \in Texts : Send(text)

\* ChatInput.handleSubmit
Submit(message) ==
    /\ ChatInputShown
    /\ Trim(message) # <<>> /\ ~isLoading
    /\ Len(calls) < MaxCalls
    /\ Commit(sendMessage(ReactState, currentSessionId, message, now))

HandleSubmit == \E message \in Texts : Submit(message)

QuickStart(query) ==
    /\ ~ChatInputShown
    /\ Len(calls) < MaxCalls
    /\ Room(currentSessionId, 2)
    /\ Commit(handleQuickStart(ReactState, currentSessionId, query, now))

HandleQuickStart == \E query \in Texts : QuickStart(query)

FileUpload(files) ==
    /\ ChatInputShown
    /\ Len(calls) + Len(files) <= MaxCalls
    /\ Commit(handleFileUpload(ReactState, currentSessionId, files, now))

HandleFileUpload == \E files \in FileLists : FileUpload(files)

\* APIService.request resolves: a 2xx status and a body that parses
Resolve(c, body) ==
    /\ calls[c].pc = "awaitApi"
    /\ Commit(settle(ReactState, c, body, now))

ApiResolve == \E c \in 1..Len(calls), body \in ApiBodies : Resolve(c, body)

\* APIService.request rejects: fetch fails, the status is not ok, or the body
\* does not parse; the inner catch starts the simulated delay
Reject(c) ==
    /\ calls[c].pc = "awaitApi"
    /\ Commit([ReactState EXCEPT !.calls[c].pc = "awaitDelay"])

ApiReject == \E c \in 1..Len(calls) : Reject(c)

\* the delay timer fires: the fallback answer is built and added
Elapse(c) ==
    /\ calls[c].pc = "awaitDelay"
    /\ \E response \in { getMockResponse(calls[c].text) } :
        Commit(settle(ReactState, c,
                      [response EXCEPT !.query = None] @@ [isNull |-> FALSE],
                      now))

DelayElapsed == \E c \in 1..Len(calls) : Elapse(c)

Next ==
    \/ Tick
    \/ CreateNewSession
    \/ SelectSession
    \/ DeleteSession
    \/ HandleFinishEdit
    \/ HandleSubmit
    \/ SendMessage
    \/ HandleQuickStart
    \/ HandleFileUpload
    \/ ApiResolve
    \/ ApiReject
    \/ DelayElapsed

Spec == Init /\ [][Next]_vars

\* the primary request of call c settles, one way or the other
ApiSettles(c) ==
    /\ c <= Len(calls)
    /\ (Reject(c) \/ \E body \in ApiBodies : Resolve(c, body))

\* the delay timer of call c fires
TimerFires(c) == c <= Len(calls) /\ Elapse(c)

----------------------------------------------------------------------------
(* exportData.  A file's text is a sequence of characters and of tokens that  *)
(* hold no quote, comma or line break (ids, sender names, rendered dates and  *)
(* numbers, fixed markup); the JSON file is modelled as the value it denotes  *)

ExportFormats == {"json", "csv", "html", "pdf"}

\* Array.prototype.join
RECURSIVE Join(_, _)
Join(parts, sep) ==
    IF parts = <<>> THEN <<>>
    ELSE IF Len(parts) = 1 THEN Head(parts)
    ELSE Head(parts) \o <<sep>> \o Join(Tail(parts), sep)

\* Array.prototype.join('')
RECURSIVE Concat(_)
Concat(parts) ==
    IF parts = <<>> THEN <<>> ELSE Head(parts) \o Concat(Tail(parts))

\* text.replace(/"/g, '""')
RECURSIVE replaceQuotes(_)
replaceQuotes(text) ==
    IF text = <<>> THEN <<>>
    ELSE (IF Head(text) = "\"" THEN <<"\"", "\"">> ELSE <<Head(text)>>)
             \o replaceQuotes(Tail(text))

\* Date.prototype.toISOString and toLocaleString, as text
IsoText(t) == "iso" \o ToString(t)

LocaleText(t) == "locale" \o ToString(t)

\* message.confidence || '': nothing for undefined and for 0
ConfidenceText(confidence) ==
    IF confidence = None \/ confidence = Some(0) THEN <<>>
    ELSE <<ToString(confidence[1])>>

CsvHeader ==
    <<"Session ID", ",", "Title", ",", "Message ID", ",", "Sender", ",",
      "Text", ",", "Timestamp", ",", "Confidence">>

csvRow(session, message) ==
    Join(<< <<session.id>>,
            <<"\"">> \o session.title \o <<"\"">>,
            <<message.id>>,
            <<message.sender>>,
            <<"\"">> \o replaceQuotes(message.text) \o <<"\"">>,
            <<IsoText(message.timestamp)>>,
            ConfidenceText(message.confidence) >>, ",")

\* selectedSessions.forEach(session => session.messages.forEach(...))
RECURSIVE csvRows(_)
csvRows(selected) ==
    IF selected = <<>> THEN <<>>
    ELSE [k \in 1..Len(Head(selected).messages) |->
             csvRow(Head(selected), Head(selected).messages[k])]
         \o csvRows(Tail(selected))

csvOf(selected) == Join(<<CsvHeader>> \o csvRows(selected), "\n")

htmlMessage(message) ==
    <<"<div class=\"message ", message.sender, "\">", "<strong>",
      IF message.sender = "user" THEN "You" ELSE "MOSDAC AI", ":</strong>", "<p>">>
        \o message.text
        \o <<"</p>", "<div class=\"metadata\">", LocaleText(message.timestamp),
             "</div>", "</div>">>

htmlSession(session) ==
    <<"<div class=\"session\">", "<h2>">> \o session.title
        \o <<"</h2>", "<p class=\"metadata\">Created: ",
             LocaleText(session.createdAt), "</p>">>
        \o Concat([k \in 1..Len(session.messages) |-> htmlMessage(session.messages[k])])
        \o <<"</div>">>

htmlOf(selected, t) ==
    <<"<!DOCTYPE html>", "<html>", "<head>", "</head>", "<body>",
      "<h1>MOSDAC Chat Export</h1>", "<p>Exported on: ", LocaleText(t), "</p>">>
        \o Concat([i \in 1..Len(selected) |-> htmlSession(selected[i])])
        \o <<"</body>", "</html>">>

\* s.messages.map(m => ({ ...m, [field]: undefined })) over every session
Without(sess, field) ==
    [i \in 1..Len(sess) |->
        [sess[i] EXCEPT !.messages =
            [k \in 1..Len(@) |-> [@[k] EXCEPT ![field] = None]]]]

\* JSON.stringify(exportData, null, 2), as the value it denotes
jsonOf(data) == [data EXCEPT !.sessions = Serialize(@)]

exportData_StripsInPlace(st, options, t) ==
    LET selectedSessions ==
            SelectSeq(st.sessions, LAMBDA s : s.id \in options.selectedSessions)
        stripped == [i \in 1..Len(st.sessions) |->
                        IF options.includeMessages THEN st.sessions[i]
                        ELSE [st.sessions[i] EXCEPT !.messages = <<>>]]
        data == [exportedAt |-> ToISO(t), options |-> options,
                 sessions |-> SelectSeq(stripped,
                                 LAMBDA s : s.id \in options.selectedSessions)]
    IN  [state |-> [st EXCEPT !.sessions = stripped],
         file |-> [options |-> options,
                   filename |-> <<"mosdac-export-", IsoText(t), ".json">>,
                   mimeType |-> "application/json",
                   content |-> jsonOf(data)]]

\* exportData: the hook's state after the call and the file handed to the
\* browser
exportData(st, options, t) ==
    LET selectedSessions ==
            SelectSeq(st.sessions, LAMBDA s : s.id \in options.selectedSessions)
        noMessages ==
            IF ~options.includeMessages
            THEN [i \in 1..Len(selectedSessions) |->
                     [selectedSessions[i] EXCEPT !.messages = <<>>]]
            ELSE selectedSessions
        noSources ==
            IF ~options.includeSources THEN Without(noMessages, "sources")
            ELSE noMessages
        noEntities ==
            IF ~options.includeEntities THEN Without(noSources, "entities")
            ELSE noSources
        data == [exportedAt |-> ToISO(t), options |-> options, sessions |-> noEntities]
        ext == CASE options.format = "csv" -> ".csv"
                 [] options.format = "html" -> ".html"
                 [] OTHER -> ".json"
    IN  [state |-> st,
         file |-> [options |-> options,
                   filename |-> <<"mosdac-export-", IsoText(t), ext>>,
                   mimeType |-> CASE options.format = "csv" -> "text/csv"
                                  [] options.format = "html" -> "text/html"
                                  [] OTHER -> "application/json",
                   content |-> CASE options.format = "csv" -> csvOf(selectedSessions)
                                 [] options.format = "html" -> htmlOf(selectedSessions, t)
                                 [] OTHER -> jsonOf(data)]]

----------------------------------------------------------------------------
(* Collections a running hook can hold, built with the hook's own operations *)

EmptyState ==
    [sessions |-> <<>>, currentSessionId |-> Null, isLoading |-> FALSE, calls |-> <<>>]

\* texts with the characters that matter to a file format: a double quote and
\* a line break in one, a comma and a line break in the other
SampleTexts == { <<"a", "\"", "\n", "b">>, <<"c", ",", "\n", "d">> }

SessionKinds == {"created", "renamed", "sent", "answered", "fellBack", "apologized"}

\* the session a short history at clock value t leaves behind: created and
\* left alone or renamed, or created by a sendMessage of text that is still
\* in flight or has settled in one of the three ways
SessionLeftBy(kind, text, t) ==
    LET created == createNewSession(EmptyState, t)
        sent == sendMessage(EmptyState, Null, text, t)
        failed == [sent EXCEPT !.calls[1].pc = "awaitDelay"]
        after ==
            CASE kind = "created" -> created
              [] kind = "renamed" ->
                    handleFinishEdit(created, IdOf(t), <<" ", "a", " ">>, t)
              [] kind = "sent" -> sent
              [] kind = "answered" ->
                    settle(sent, 1, CHOOSE body \in ApiBodies : ~body.isNull, t)
              [] kind = "fellBack" ->
                    settle(failed, 1,
                           [getMockResponse(text) EXCEPT !.query = None]
                               @@ [isNull |-> FALSE], t)
              [] kind = "apologized" -> settle(sent, 1, [isNull |-> TRUE], t)
    IN  Head(after.sessions)

SampleSessions ==
    { SessionLeftBy(kind, text, t) :
        kind \in SessionKinds, text \in SampleTexts, t \in 0..MaxClock }

RECURSIVE CollectionsOf(_)
CollectionsOf(n) ==
    IF n = 0 THEN { <<>> }
    ELSE LET shorter == CollectionsOf(n - 1)
         IN  shorter \cup { <<s>> \o c : s \in SampleSessions, c \in shorter }

Collections == CollectionsOf(MaxSessions)

----------------------------------------------------------------------------
(* Reloading the page: a new hook instance starts on what the last one saved *)

\* a blob an earlier collection left in the store
OldBlob == Serialize(<<SessionLeftBy("answered", <<"o", "l", "d">>, 0)>>)

\* a running hook with its first session current; its save effect has run on
\* its collection, over an empty store or over an older blob
InitReload ==
    /\ sessions \in Collections
    /\ currentSessionId = (IF sessions = <<>> THEN Null ELSE Head(sessions).id)
    /\ isLoading = FALSE
    /\ now = 0
    /\ calls = <<>>
    /\ stored \in { SaveEffect(sessions, blob) : blob \in {NoBlob, OldBlob} }
    /\ lastDeleted = Null
    /\ download = None
    /\ mockQuery = <<>>
    /\ mockResponse = None
    /\ mount = {}

\* the state of a fresh instance, the load effect, and the save effect on the
\* render that follows
Reload ==
    /\ sessions' = loadEffect(<<>>, stored).sessions
    /\ currentSessionId' = Null
    /\ isLoading' = FALSE
    /\ calls' = <<>>
    /\ stored' = SaveEffect(loadEffect(<<>>, stored).sessions, stored)
    /\ lastDeleted' = Null
    /\ UNCHANGED <<now, aside>>

SpecReload == InitReload /\ [][Reload]_vars

----------------------------------------------------------------------------
(* Mounting: the first render of a new hook instance and its effects, over   *)
(* whatever the store holds                                                  *)

\* the record o without its property k
Omit(o, k) == [j \in DOMAIN o \ {k} |-> o[j]]

\* what can go wrong with the entry of an array of sessions
Damages == {"nullEntry", "noMessages", "nullMessage", "badDate"}

\* the blob with entry i damaged: null in its place, its messages missing,
\* null in place of its first message, or a createdAt that is no date
Damaged(blob, i, damage) ==
    [blob EXCEPT ![i] =
        CASE damage = "nullEntry" -> JsonNull
          [] damage = "noMessages" -> Omit(@, "messages")
          [] damage = "nullMessage" ->
                [@ EXCEPT !.messages =
                    IF @ = <<>> THEN <<JsonNull>> ELSE [@ EXCEPT ![1] = JsonNull]]
          [] damage = "badDate" -> [@ EXCEPT !.createdAt = <<"text", 0>>]]

\* the texts the save effect writes for the non-empty collections among cs
SavedBlobs(cs) == { Serialize(c) : c \in cs \ { <<>> } }

\* the texts the store can hold when the page opens, after hooks that held
\* the collections cs: none, what the save effect wrote for a collection,
\* such a text with one entry damaged, JSON for something that is not an
\* array, and text that is not JSON
StoredBlobs(cs) ==
    {NoBlob, Unparseable, NotArray} \cup SavedBlobs(cs)
        \cup UNION { { Damaged(blob, i, damage) : i \in 1..Len(blob), damage \in Damages } :
                      blob \in SavedBlobs(cs) }

\* the first render: the initial state of the hook, both effects pending
InitMount ==
    /\ sessions = <<>>
    /\ currentSessionId = Null
    /\ isLoading = FALSE
    /\ now = 0
    /\ calls = <<>>
    /\ stored \in StoredBlobs(Collections)
    /\ lastDeleted = Null
    /\ download = None
    /\ mockQuery = <<>>
    /\ mockResponse = None
    /\ mount = {"load", "save"}

\* the load effect runs; setSessions asks for a render, whose save effect is
\* then due
RunLoadEffect ==
    /\ "load" \in mount
    /\ \E done \in { loadEffect(sessions, stored) } :
        /\ sessions' = done.sessions
        /\ mount' = (mount \ {"load"})
                        \cup (IF done.set THEN {"saveLoaded"} ELSE {})
                        \cup (IF done.logged THEN {"logged"} ELSE {})
                        \cup (IF done.raised THEN {"raised"} ELSE {})
    /\ UNCHANGED <<currentSessionId, isLoading, now, calls, stored, lastDeleted,
                   download, mockQuery, mockResponse>>

\* the save effect of the first render runs, on the collection that render
\* saw: the initial empty one
RunSaveEffect ==
    /\ "save" \in mount
    /\ stored' = SaveEffect(<<>>, stored)
    /\ mount' = mount \ {"save"}
    /\ UNCHANGED <<sessions, currentSessionId, isLoading, now, calls, lastDeleted,
                   download, mockQuery, mockResponse>>

\* the save effect of the render that shows the loaded collection
RunSaveEffectAgain ==
    /\ "saveLoaded" \in mount
    /\ stored' = SaveEffect(sessions, stored)
    /\ mount' = mount \ {"saveLoaded"}
    /\ UNCHANGED <<sessions, currentSessionId, isLoading, now, calls, lastDeleted,
                   download, mockQuery, mockResponse>>

NextMount == RunLoadEffect \/ RunSaveEffect \/ RunSaveEffectAgain

SpecMount == InitMount /\ [][NextMount]_vars

----------------------------------------------------------------------------
(* Exporting: the export dialog over a running hook *)

\* what the export dialog can hand over: a format, the three switches, and
\* any selection of the sessions it lists
ExportOptions ==
    [format : ExportFormats,
     includeMessages : BOOLEAN, includeSources : BOOLEAN, includeEntities : BOOLEAN,
     selectedSessions : SUBSET { sessions[i].id : i \in 1..Len(sessions) }]

\* a running hook whose sessions were created at successive clock values, the
\* newest at the head
InitExport ==
    /\ sessions \in { c \in Collections :
                        \A i \in 1..Len(c) : c[i].createdAt = Len(c) - i }
    /\ currentSessionId = (IF sessions = <<>> THEN Null ELSE Head(sessions).id)
    /\ isLoading = FALSE
    /\ now = MaxClock
    /\ calls = <<>>
    /\ stored = SaveEffect(sessions, NoBlob)
    /\ lastDeleted = Null
    /\ download = None
    /\ mockQuery = <<>>
    /\ mockResponse = None
    /\ mount = {}

ExportData(options) ==
    LET done == exportData(ReactState, options, now)
    IN  /\ CommitState(done.state)
        /\ download' = Some(done.file)
        /\ UNCHANGED <<now, lastDeleted, mockQuery, mockResponse, mount>>

HandleExport == \E options \in ExportOptions : ExportData(options)

SpecExport == InitExport /\ [][HandleExport]_vars

----------------------------------------------------------------------------
(* getMockResponse called on its own, with any query *)

InitMock ==
    /\ sessions = <<>>
    /\ currentSessionId = Null
    /\ isLoading = FALSE
    /\ now = 0
    /\ calls = <<>>
    /\ stored = NoBlob
    /\ lastDeleted = Null
    /\ download = None
    /\ mockQuery \in Queries
    /\ mockResponse = None
    /\ mount = {}

CallGetMockResponse ==
    /\ mockResponse' = Some(getMockResponse(mockQuery))
    /\ UNCHANGED <<sessions, currentSessionId, isLoading, now, calls, stored,
                   lastDeleted, download, mockQuery, mount>>

SpecMock == InitMock /\ [][CallGetMockResponse]_vars

----------------------------------------------------------------------------
(* Fairness of what sendMessage awaits *)

\* the steps that start calls, settle them, or add and remove their targets
NextCalls ==
    \/ Tick
    \/ CreateNewSession
    \/ DeleteSession
    \/ HandleSubmit
    \/ SendMessage
    \/ HandleQuickStart
    \/ HandleFileUpload
    \/ ApiResolve
    \/ ApiReject
    \/ DelayElapsed

\* fetch settles and timers fire: no request and no delay stays pending forever
SpecFair ==
    /\ Init /\ [][NextCalls]_vars
    /\ \A c \in 1..MaxCalls : WF_vars(ApiSettles(c)) /\ WF_vars(TimerFires(c))

----------------------------------------------------------------------------
(* Properties *)

IdsOf(sess) == { sess[i].id : i \in 1..Len(sess) }

PointerValid(sess, cid) == cid = Null \/ cid \in IdsOf(sess)

LifecycleStep == CreateNewSession \/ DeleteSession \/ HandleFinishEdit

\* C1: starting from the empty collection with no current session, every
\* createNewSession, deleteSession and renameSession call keeps the pointer
\* unset or equal to the id of a session of the collection (the pointer is
\* valid initially, and each of these calls taken from a state where it is
\* valid leaves it valid).
C1_PointerStaysValid ==
    /\ PointerValid(sessions, currentSessionId)
    /\ [][LifecycleStep /\ PointerValid(sessions, currentSessionId)
              => PointerValid(sessions', currentSessionId')]_vars

\* a session was deleted while current and others remain
C1_Witness ==
    /\ currentSessionId = Null
    /\ lastDeleted # Null
    /\ Len(sessions) >= 1

\* C7: the persisted blob is the serialization of exactly the in-memory
\* collection after every mutation (no blob standing for the empty collection).
C7_BlobMirrorsCollection == stored = Serialize(sessions)

\* C9: the sessions of the collection have pairwise distinct ids.
C9_IdsDistinct ==
    \A i, j \in 1..Len(sessions) : i # j => sessions[i].id # sessions[j].id

\* C10: createNewSession puts a session titled 'New Chat' with no messages at
\* the head, keeps the previous sessions as they were and in order behind it,
\* and makes the new session current; the session it returns to sendMessage is
\* that head session.
C10_CreateInsertsAtHead ==
    [][ /\ CreateNewSession =>
            /\ Len(sessions') = Len(sessions) + 1
            /\ Head(sessions').title = NewChatTitle
            /\ Head(sessions').messages = <<>>
            /\ Tail(sessions') = sessions
            /\ currentSessionId' = Head(sessions').id
        /\ (SendMessage /\ Falsy(currentSessionId)) =>
            /\ Len(sessions') = Len(sessions) + 1
            /\ currentSessionId' = Head(sessions').id
            /\ calls'[Len(calls')].sessionId = Head(sessions').id
      ]_vars

\* a fresh session is current at the head, in front of an older session that
\* has been used
C10_Witness ==
    /\ Len(sessions) = 2
    /\ Head(sessions).title = NewChatTitle
    /\ Head(sessions).messages = <<>>
    /\ currentSessionId = Head(sessions).id
    /\ sessions[2].messages # <<>>
    /\ sessions[2].id # Head(sessions).id

----------------------------------------------------------------------------
(* Properties of sendMessage *)

Settled(cs, c) == cs[c].pc \in {"answered", "fellBack", "apologized"}

\* the positions in session s of the messages call c produced as sender
MessagesOf(s, c, sender) ==
    { k \in 1..Len(s.messages) :
        s.messages[k].call = c /\ s.messages[k].sender = sender }

Paired(s, c) ==
    /\ Cardinality(MessagesOf(s, c, "user")) = 1
    /\ Cardinality(MessagesOf(s, c, "bot")) = 1
    /\ \A u \in MessagesOf(s, c, "user"), b \in MessagesOf(s, c, "bot") : u < b

Settles(c) == ~Settled(calls, c) /\ Settled(calls', c)

\* the calls a step starts
Started == (Len(calls) + 1)..Len(calls')

\* C2 as stated: when a sendMessage call that had a target session (it
\* captured the id of a session of the collection, or created one) settles,
\* that session holds exactly one user message and one assistant message of
\* the call, the user message first.
C2_EveryCallPairs ==
    [][\A c \in 1..Len(calls) :
          (Settles(c) /\ calls[c].sessionId # StaleId) =>
              \E i \in 1..Len(sessions') :
                  /\ sessions'[i].id = calls[c].sessionId
                  /\ Paired(sessions'[i], c)]_vars

\* C2 amended: a call whose target session is in the collection when the call
\* starts puts exactly one user message into it; no session ever holds more
\* than one user or one assistant message of a call, nor an assistant message
\* before the call's user message or before the call has settled; and once the
\* call has settled, every session that still holds its user message (the
\* target, if it was not deleted meanwhile) holds its assistant message.
C2_PairsWhileTargetLives ==
    /\ [](\A c \in 1..Len(calls), i \in 1..Len(sessions) :
            LET users == MessagesOf(sessions[i], c, "user")
                bots == MessagesOf(sessions[i], c, "bot")
            IN  /\ Cardinality(users) <= 1
                /\ Cardinality(bots) <= 1
                /\ \A u \in users, b \in bots : u < b
                /\ ~Settled(calls, c) => bots = {}
                /\ (Settled(calls, c) /\ users # {}) => Paired(sessions[i], c))
    /\ [][\A c \in Started, i \in 1..Len(sessions') :
            sessions'[i].id = calls'[c].sessionId
                => Cardinality(MessagesOf(sessions'[i], c, "user")) = 1]_vars

\* two overlapping calls have settled into one session: both user messages
\* came before either reply
C2_Witness ==
    /\ Len(calls) = 2
    /\ Settled(calls, 1) /\ Settled(calls, 2)
    /\ \E i \in 1..Len(sessions) :
        /\ Paired(sessions[i], 1) /\ Paired(sessions[i], 2)
        /\ \A u \in MessagesOf(sessions[i], 2, "user"),
              b \in MessagesOf(sessions[i], 1, "bot") : u < b

\* C3: a call whose primary request failed waits for the delay and then
\* settles as a fallback, never as an apology; the assistant message it adds
\* carries the answer, sources, entities and confidence of getMockResponse for
\* the call's text, and every session still holding the call's user message
\* gets it.
C3_FailureFallsBack ==
    /\ [](\A c \in 1..Len(calls), i \in 1..Len(sessions) :
            calls[c].pc = "fellBack" =>
                /\ \A k \in MessagesOf(sessions[i], c, "bot") :
                    LET m == sessions[i].messages[k]
                        mock == getMockResponse(calls[c].text)
                    IN  /\ m.text = mock.response[1]
                        /\ m.text # ApologyText
                        /\ m.sources = Some(mock.sources)
                        /\ m.entities = Some(mock.entities)
                        /\ m.confidence = Some(mock.confidence)
                /\ MessagesOf(sessions[i], c, "user") # {}
                       => MessagesOf(sessions[i], c, "bot") # {})
    /\ [][\A c \in 1..Len(calls) :
            /\ Reject(c) => calls'[c].pc = "awaitDelay"
            /\ calls[c].pc = "awaitDelay"
                   => calls'[c].pc \in {"awaitDelay", "fellBack"}]_vars

\* a failed call has settled and its session shows the canned INSAT answer
C3_Witness ==
    \E c \in 1..Len(calls), i \in 1..Len(sessions) :
        /\ calls[c].pc = "fellBack"
        /\ \E k \in MessagesOf(sessions[i], c, "bot") :
            sessions[i].messages[k].confidence = Some(92)

\* C4: a call captures the current session id when it starts (the id of the
\* session it creates when none is current); its settlement adds one assistant
\* message to each session carrying that id and changes no other session,
\* whatever session is current by then.
C4_ReplyGoesToCapturedSession ==
    /\ [](\A i \in 1..Len(sessions) :
            \A k \in 1..Len(sessions[i].messages) :
                sessions[i].messages[k].sender = "bot"
                    => sessions[i].id = calls[sessions[i].messages[k].call].sessionId)
    /\ [][/\ \A c \in Started :
              calls'[c].sessionId =
                  IF Falsy(currentSessionId) THEN currentSessionId'
                  ELSE currentSessionId
          /\ \A c \in 1..Len(calls) :
              Settles(c) =>
                  /\ Len(sessions') = Len(sessions)
                  /\ \A i \in 1..Len(sessions) :
                      IF sessions[i].id = calls[c].sessionId
                      THEN /\ Len(sessions'[i].messages) = Len(sessions[i].messages) + 1
                           /\ MessagesOf(sessions'[i], c, "bot")
                                  = { Len(sessions'[i].messages) }
                      ELSE sessions'[i] = sessions[i]]_vars

\* call 1 has replied into its session although call 2 was started from
\* another session while call 1 was in flight (call 1's settlement is what
\* cleared the loading flag under call 2)
C4_Witness ==
    /\ Len(calls) = 2
    /\ Settled(calls, 1)
    /\ calls[2].pc = "awaitApi"
    /\ ~isLoading
    /\ calls[1].sessionId # calls[2].sessionId
    /\ currentSessionId = calls[2].sessionId
    /\ \E i \in 1..Len(sessions) :
        /\ sessions[i].id = calls[1].sessionId
        /\ MessagesOf(sessions[i], 1, "bot") # {}

\* C5: a sendMessage issued while the current id belongs to no session creates
\* a session and puts its user message there.
C5_StaleIdSendCreatesSession ==
    [][(SendMessage /\ currentSessionId # Null
            /\ currentSessionId \notin IdsOf(sessions)) =>
          /\ Len(sessions') = Len(sessions) + 1
          /\ MessagesOf(Head(sessions'), Len(calls'), "user") # {}]_vars

\* C6: deleting the current session removes it and unsets the pointer, and the
\* next sendMessage creates one session, with an id other than the deleted
\* one, that takes the user message; no session carries the deleted id.
C6_DeleteThenSendIsBrandNew ==
    [][/\ \A id \in IdsOf(sessions) :
            (id = currentSessionId /\ DeleteSessionOf(id)) =>
                /\ currentSessionId' = Null
                /\ id \notin IdsOf(sessions')
       /\ (SendMessage /\ currentSessionId = Null /\ lastDeleted # Null) =>
            /\ Len(sessions') = Len(sessions) + 1
            /\ Head(sessions').id # lastDeleted
            /\ lastDeleted \notin IdsOf(sessions')
            /\ MessagesOf(Head(sessions'), Len(calls'), "user") # {}]_vars

\* C11: a call whose resolution throws (the primary request resolved with a
\* body that is null) settles as an apology: the throw is caught, the loading
\* flag is cleared, and the session that was targeted gets exactly one more
\* message, the assistant message with the fixed apology text, confidence 0.1
\* and neither sources nor entities; no session ever holds another assistant
\* message of that call.
C11_SecondOrderFailureApologizes ==
    /\ [](\A c \in 1..Len(calls), i \in 1..Len(sessions) :
            calls[c].pc = "apologized" =>
                /\ Cardinality(MessagesOf(sessions[i], c, "bot")) <= 1
                /\ MessagesOf(sessions[i], c, "user") # {}
                       => MessagesOf(sessions[i], c, "bot") # {}
                /\ \A k \in MessagesOf(sessions[i], c, "bot") :
                    LET m == sessions[i].messages[k]
                    IN  /\ m.text = ApologyText
                        /\ m.confidence = Some(10)
                        /\ m.sources = None /\ m.entities = None)
    /\ [][\A c \in 1..Len(calls), body \in ApiBodies :
            (Resolve(c, body) /\ body.isNull) =>
                /\ calls'[c].pc = "apologized"
                /\ isLoading' = FALSE
                /\ Len(sessions') = Len(sessions)
                /\ \A i \in 1..Len(sessions) :
                    sessions[i].id = calls[c].sessionId =>
                        /\ Len(sessions'[i].messages) = Len(sessions[i].messages) + 1
                        /\ sessions'[i].messages[Len(sessions'[i].messages)].text
                               = ApologyText]_vars

\* a call has apologized into its session after its user message
C11_Witness ==
    \E c \in 1..Len(calls), i \in 1..Len(sessions) :
        /\ calls[c].pc = "apologized"
        /\ ~isLoading
        /\ Paired(sessions[i], c)
        /\ \E k \in MessagesOf(sessions[i], c, "bot") :
            sessions[i].messages[k].confidence = Some(10)

\* call c had a target session when it started (its user message went there)
\* and no session holds that user message any more: the target was deleted
Orphaned(c) ==
    /\ calls[c].sessionId # StaleId
    /\ \A i \in 1..Len(sessions) : MessagesOf(sessions[i], c, "user") = {}

\* C12: when a call whose target session was deleted settles, the step adds
\* no session and leaves the messages of every session as they were.
C12_ReplyToDeletedIsDropped ==
    [][\A c \in 1..Len(calls) :
          (Settles(c) /\ Orphaned(c)) =>
              /\ Len(sessions') = Len(sessions)
              /\ \A i \in 1..Len(sessions) :
                  sessions'[i].messages = sessions[i].messages]_vars

\* C13: a step that starts calls puts their user messages into the target and
\* leaves the loading flag set; a step that settles a call clears the flag;
\* the flag is clear whenever no call is in flight; and, fetch and timers
\* being fair, every call that was started settles.
C13_LoadingSetThenCleared ==
    /\ []((\A c \in 1..Len(calls) : Settled(calls, c)) => ~isLoading)
    /\ [][/\ \A c \in Started :
              /\ isLoading'
              /\ ~Settled(calls', c)
              /\ \A i \in 1..Len(sessions') :
                  sessions'[i].id = calls'[c].sessionId
                      => MessagesOf(sessions'[i], c, "user") # {}
          /\ \A c \in 1..Len(calls) : Settles(c) => ~isLoading']_vars
    /\ \A c \in 1..MaxCalls :
           (Len(calls) >= c) ~> (Len(calls) >= c /\ Settled(calls, c))

\* two calls were in flight together and both have settled, the second one
\* through the fallback delay; the flag is clear
C13_Witness ==
    /\ Len(calls) = 2
    /\ Settled(calls, 1)
    /\ calls[2].pc = "fellBack"
    /\ ~isLoading
    /\ \E i \in 1..Len(sessions) :
        /\ Paired(sessions[i], 1) /\ Paired(sessions[i], 2)
        /\ \A u \in MessagesOf(sessions[i], 2, "user"),
              b \in MessagesOf(sessions[i], 1, "bot") : u < b

----------------------------------------------------------------------------
(* Properties of the automatic title *)

\* title holds the first n characters of text (all of it if it is shorter)
FirstChars(title, text, n) ==
    /\ Len(title) = (IF Len(text) < n THEN Len(text) ELSE n)
    /\ \A k \in 1..Len(title) : title[k] = text[k]

\* the session at position i after a step that created d sessions at the head
\* was, before the step, the session at position i - d, or did not exist
Before(i, d) ==
    IF i > d THEN sessions[i - d]
    ELSE [title |-> NewChatTitle, messages |-> <<>>]

\* C20: in a step in which calls start or settle, a session that had no message
\* and gets a user message first ends up titled with the first 50 characters
\* of that message's text; every other session, whether it gets user messages
\* behind existing ones, an assistant message or nothing, keeps its title.
C20_FirstUserMessageTitles ==
    [][(Started # {} \/ \E c \in 1..Len(calls) : Settles(c)) =>
          LET d == Len(sessions') - Len(sessions)
          IN  /\ d >= 0
              /\ \A i \in 1..Len(sessions') :
                  LET old == Before(i, d)
                      new == sessions'[i]
                  IN  IF /\ old.messages = <<>>
                         /\ new.messages # <<>>
                         /\ new.messages[1].sender = "user"
                      THEN FirstChars(new.title, new.messages[1].text, 50)
                      ELSE new.title = old.title]_vars

\* the first message of a session was longer than 50 characters: the title
\* is its 50-character head, and the reply that followed left it alone
C20_Witness ==
    \E i \in 1..Len(sessions) :
        /\ Len(sessions[i].messages) >= 2
        /\ sessions[i].messages[1].sender = "user"
        /\ Len(sessions[i].messages[1].text) > 50
        /\ sessions[i].messages[2].sender = "bot"
        /\ Len(sessions[i].title) = 50
        /\ sessions[i].title = SubSeq(sessions[i].messages[1].text, 1, 50)

----------------------------------------------------------------------------
(* Properties of persistence *)

\* C14: the load effect applied to the serialization of the collection gives
\* the collection back, session by session and message by message, with every
\* date and every optional field as it was; so a reload of the page over the
\* blob that the save effect wrote for the collection leaves the collection
\* and the blob as they were.
C14_ReloadRestoresCollection ==
    /\ [](loadEffect(<<>>, Serialize(sessions)).sessions = sessions)
    /\ [][(Reload /\ sessions # <<>>) =>
              /\ sessions' = sessions
              /\ stored' = stored]_vars

\* a reloaded instance (nothing is current) holds two sessions, one with a
\* user message without optional fields and a reply that has them all
C14_Witness ==
    /\ currentSessionId = Null
    /\ Len(sessions) = 2
    /\ stored = Serialize(sessions)
    /\ \E i \in 1..Len(sessions) :
        /\ Len(sessions[i].messages) = 2
        /\ sessions[i].messages[1].sources = None
        /\ sessions[i].messages[2].sources # None
        /\ sessions[i].messages[2].confidence = Some(90)
        /\ sessions[i].messages[2].timestamp = sessions[i].updatedAt

----------------------------------------------------------------------------
(* Properties of exportData *)

\* Reading a CSV text.  A field that opens with a double quote runs to the
\* next double quote that is not doubled, commas and line breaks included, and
\* a doubled quote stands for one; anywhere else a comma ends the field and a
\* line break ends the row.  The reader is "start" at the head of a field,
\* "quoted" inside a quoted field, "closing" after a quote met there, and
\* "plain" otherwise.
CsvStep(mode, ch) ==
    IF mode = "quoted" THEN (IF ch = "\"" THEN "closing" ELSE "quoted")
    ELSE IF ch = "\"" /\ mode \in {"start", "closing"} THEN "quoted"
    ELSE IF ch \in {",", "\n"} THEN "start"
    ELSE "plain"

\* the reader's mode in front of each token of text, entered in mode
RECURSIVE CsvModes(_, _)
CsvModes(text, mode) ==
    IF text = <<>> THEN <<>>
    ELSE IF Len(text) = 1 THEN <<mode>>
    ELSE LET half == Len(text) \div 2
             left == CsvModes(SubSeq(text, 1, half), mode)
         IN  left \o CsvModes(SubSeq(text, half + 1, Len(text)),
                              CsvStep(left[half], text[half]))

\* the members of a set of numbers, in increasing order
Sorted(S) ==
    [k \in 1..Cardinality(S) |->
        CHOOSE x \in S : Cardinality({ y \in S : y < x }) = k - 1]

\* the tokens of text strictly between positions a and b that belong to the
\* field's value: not the quotes that open and close it, and one quote of a pair
CsvField(text, modes, a, b) ==
    LET kept == { i \in (a + 1)..(b - 1) :
                    IF text[i] = "\"" THEN modes[i] \in {"closing", "plain"}
                    ELSE TRUE }
        at == Sorted(kept)
    IN  [k \in 1..Len(at) |-> text[at[k]]]

\* the fields between positions a and b, cut at the commas outside quotes
CsvRow(text, modes, a, b) ==
    LET commas == { i \in (a + 1)..(b - 1) : text[i] = "," /\ modes[i] # "quoted" }
        cuts == <<a>> \o Sorted(commas) \o <<b>>
    IN  [k \in 1..(Len(cuts) - 1) |-> CsvField(text, modes, cuts[k], cuts[k + 1])]

\* the rows of a CSV text, each a sequence of fields
CsvRowsOf(text) ==
    LET modes == CsvModes(text, "start")
        breaks == { i \in 1..Len(text) : text[i] = "\n" /\ modes[i] # "quoted" }
        cuts == <<0>> \o Sorted(breaks) \o <<Len(text) + 1>>
    IN  [k \in 1..(Len(cuts) - 1) |-> CsvRow(text, modes, cuts[k], cuts[k + 1])]

\* the (session, message) pairs of the sessions of sess whose id is in ids,
\* session by session and message by message
RECURSIVE MessagesIn(_, _)
MessagesIn(sess, ids) ==
    IF sess = <<>> THEN <<>>
    ELSE (IF Head(sess).id \in ids
          THEN [k \in 1..Len(Head(sess).messages) |->
                   [session |-> Head(sess), message |-> Head(sess).messages[k]]]
          ELSE <<>>)
         \o MessagesIn(Tail(sess), ids)

IsCsv == download # None /\ download[1].mimeType = "text/csv"

IsHtml == download # None /\ download[1].mimeType = "text/html"

IsJson == download # None /\ download[1].mimeType = "application/json"

\* C15: an exportData call, whatever its options (they are those on the file
\* it hands over), leaves the collection, the current-session pointer, the
\* loading flag and the persisted blob as they were.
C15_ExportIsPureRead ==
    [][(download' # None /\ ExportData(download'[1].options)) =>
          /\ sessions' = sessions
          /\ currentSessionId' = currentSessionId
          /\ isLoading' = isLoading
          /\ stored' = stored]_vars

\* a JSON export without messages was made of a collection that still has
\* its messages
C15_Witness ==
    /\ IsJson
    /\ ~download[1].options.includeMessages
    /\ \E i \in 1..Len(sessions) :
        /\ sessions[i].id \in download[1].options.selectedSessions
        /\ Len(sessions[i].messages) = 2
    /\ download[1].content.sessions # <<>>
    /\ \A i \in 1..Len(download[1].content.sessions) :
        download[1].content.sessions[i].messages = <<>>
    /\ stored = Serialize(sessions)

\* C16: a file exported with includeMessages = false holds no message: a CSV
\* file has the header row only, an HTML file no message block, and a JSON
\* file lists the selected sessions, ids and titles kept, with no messages.
C16_NoMessagesWhenExcluded ==
    (download # None /\ ~download[1].options.includeMessages) =>
        LET chosen == SelectSeq(sessions,
                         LAMBDA s : s.id \in download[1].options.selectedSessions)
        IN  /\ IsCsv => CsvRowsOf(download[1].content) = CsvRowsOf(CsvHeader)
            /\ IsHtml =>
                /\ \A k \in 1..Len(download[1].content) :
                       download[1].content[k] # "<div class=\"message "
                /\ Cardinality({ k \in 1..Len(download[1].content) :
                                   download[1].content[k] = "<h2>" }) = Len(chosen)
            /\ IsJson =>
                /\ Len(download[1].content.sessions) = Len(chosen)
                /\ \A i \in 1..Len(chosen) :
                    /\ download[1].content.sessions[i].id = chosen[i].id
                    /\ download[1].content.sessions[i].title = chosen[i].title
                    /\ download[1].content.sessions[i].messages = <<>>

\* C17: a CSV file reads as the header row followed by one row per message of
\* the selected sessions, in collection order and, within a session, in
\* message order: row k + 1 starts with the session id and has the message id
\* as its third field.
C17_CsvOneRowPerMessage ==
    IsCsv =>
        LET rows == CsvRowsOf(download[1].content)
            expected == MessagesIn(sessions, download[1].options.selectedSessions)
        IN  /\ Len(rows) = 1 + Len(expected)
            /\ rows[1] = CsvRowsOf(CsvHeader)[1]
            /\ \A k \in 1..Len(expected) :
                /\ Len(rows[k + 1]) >= 3
                /\ rows[k + 1][1] = <<expected[k].session.id>>
                /\ rows[k + 1][3] = <<expected[k].message.id>>

\* C18: every row of a CSV file reads as seven fields, the second being the
\* session title and the fifth the message text, character for character,
\* whatever quotes, commas or line breaks they hold.
C18_CsvTextFieldsQuoted ==
    IsCsv =>
        LET rows == CsvRowsOf(download[1].content)
            expected == MessagesIn(sessions, download[1].options.selectedSessions)
        IN  \A k \in 1..Len(expected) :
                /\ k + 1 <= Len(rows)
                /\ Len(rows[k + 1]) = 7
                /\ rows[k + 1][2] = expected[k].session.title
                /\ rows[k + 1][5] = expected[k].message.text

----------------------------------------------------------------------------
(* Properties of the fallback generator *)

\* word occurs in q when capitals are read as their small letters
Mentions(q, word) ==
    \E a \in 0..(Len(q) - Len(word)) :
        \A k \in 1..Len(word) :
            \/ q[a + k] = word[k]
            \/ q[a + k] \in DOMAIN LowerOf /\ LowerOf[q[a + k]] = word[k]

\* C19: the result of getMockResponse is determined by the query: the 'insat'
\* entry (confidence 0.92, both sources, all entities) when the query mentions
\* insat in any capitalisation, else the 'weather' entry (confidence 0.88, the
\* first source, the second entity) when it mentions weather, else the generic
\* answer quoting the query, with both sources, no entity and confidence 0.75;
\* calling it again does not change the result.
C19_FirstKeywordWins ==
    /\ [](mockResponse # None =>
            LET r == mockResponse[1]
            IN  IF Mentions(mockQuery, <<"i", "n", "s", "a", "t">>)
                THEN /\ r.response = Some(<<"I", "N", "S", "A", "T", "-", "3", "D">>)
                     /\ r.sources = <<"src0", "src1">>
                     /\ r.entities = <<"ent0", "ent1", "ent2">>
                     /\ r.confidence = 92
                ELSE IF Mentions(mockQuery, <<"w", "e", "a", "t", "h", "e", "r">>)
                THEN /\ r.response = Some(<<"M", "O", "S", "D", "A", "C">>)
                     /\ r.sources = <<"src0">>
                     /\ r.entities = <<"ent1">>
                     /\ r.confidence = 88
                ELSE /\ r.response = Some(<<"?", "\"">> \o mockQuery \o <<"\"">>)
                     /\ r.sources = <<"src0", "src1">>
                     /\ r.entities = <<>>
                     /\ r.confidence = 75)
    /\ [][mockResponse # None => mockResponse' = mockResponse]_vars

\* a query that names weather first and insat second, in capitals, got the
\* insat entry
C19_Witness ==
    /\ mockQuery = <<"W", "e", "A", "t", "H", "e", "r", "I", "N", "S", "A", "T">>
    /\ mockResponse # None
    /\ mockResponse[1].confidence = 92

----------------------------------------------------------------------------
(* Properties of renaming *)

Blank(title) == \A k \in 1..Len(title) : title[k] \in Whitespace

\* inner is title without its leading and trailing whitespace
Stripped(title, inner) ==
    /\ inner # <<>>
    /\ Head(inner) \notin Whitespace
    /\ inner[Len(inner)] \notin Whitespace
    /\ \E a \in 0..(Len(title) - Len(inner)) :
        /\ SubSeq(title, a + 1, a + Len(inner)) = inner
        /\ Blank(SubSeq(title, 1, a))
        /\ Blank(SubSeq(title, a + Len(inner) + 1, Len(title)))

----------------------------------------------------------------------------
(* Properties of a session's history *)

IsPrefix(s, t) == Len(s) <= Len(t) /\ SubSeq(t, 1, Len(s)) = s

\* the sessions of a step's first state that its second state still holds, in
\* order: a step that shrinks the collection is a deleteSession, which drops
\* every session carrying one id; any other step keeps them all
Survivors ==
    IF Len(sessions') < Len(sessions)
    THEN { kept \in { SelectSeq(sessions, LAMBDA s : s.id # id) : id \in IdsOf(sessions) } :
             Len(kept) = Len(sessions') }
    ELSE { sessions }

\* the sessions a step puts in front of those it keeps
Added(kept) == Len(sessions') - Len(kept)

\* C21: within every session the message sequence only grows at its end: over
\* every step (a send, a settlement, a rename, a switch, an export, the
\* deletion of other sessions) each session that is still there afterwards
\* keeps its place behind the sessions the step created, keeps its id, and
\* holds a message sequence of which its earlier sequence is a prefix.
C21_MessagesOnlyAppended ==
    [][\E kept \in Survivors :
          \A i \in 1..Len(kept) :
              /\ sessions'[Added(kept) + i].id = kept[i].id
              /\ IsPrefix(kept[i].messages, sessions'[Added(kept) + i].messages)]_vars

\* a session holds the messages of two settled calls after it was renamed,
\* while another session is current
C21_Witness ==
    \E i \in 1..Len(sessions) :
        /\ Len(sessions) = 2
        /\ Len(sessions[i].messages) = 4
        /\ sessions[i].title = <<"a">>
        /\ currentSessionId \in IdsOf(sessions)
        /\ currentSessionId # sessions[i].id

\* the ids of the sessions a step mutates: the targets of the calls it starts
\* and of the calls it settles, and the session an edit gives a new title
Targets ==
    { calls'[c].sessionId : c \in Started }
        \cup { calls[c].sessionId : c \in { c \in 1..Len(calls) : Settles(c) } }
        \cup { sessions[i].id : i \in { i \in 1..Len(sessions) :
                    \E title \in EditTitles :
                        Trim(title) # <<>> /\ FinishEdit(i, title) } }

\* C22: a session's updatedAt never decreases and never runs ahead of the
\* clock; every step that mutates the session (appends a user message or an
\* assistant message, renames it) sets it to the current time, every other
\* step leaves the session as a whole unchanged, and createdAt stays what it
\* was at creation.
C22_UpdatedAtAdvances ==
    /\ [](\A i \in 1..Len(sessions) :
            sessions[i].createdAt <= sessions[i].updatedAt
                /\ sessions[i].updatedAt <= now)
    /\ [][\E kept \in Survivors :
            \A i \in 1..Len(kept) :
                LET after == sessions'[Added(kept) + i]
                IN  /\ after.createdAt = kept[i].createdAt
                    /\ after.updatedAt >= kept[i].updatedAt
                    /\ IF kept[i].id \in Targets
                       THEN after.updatedAt = now
                       ELSE after = kept[i]]_vars

\* a session was answered after its creation, next to a session created since
\* and left alone
C22_Witness ==
    \E i, j \in 1..Len(sessions) :
        /\ sessions[i].id # sessions[j].id
        /\ sessions[i].updatedAt > sessions[i].createdAt
        /\ sessions[i].messages # <<>>
        /\ sessions[i].messages[Len(sessions[i].messages)].sender = "bot"
        /\ sessions[j].updatedAt = sessions[j].createdAt
        /\ sessions[j].createdAt > sessions[i].createdAt

----------------------------------------------------------------------------
(* Properties of overlapping calls *)

\* C23: assistant replies are appended in the order the calls settle, not in
\* the order they were issued: the step that settles a call puts the call's
\* reply behind everything its target session held, the replies of calls
\* issued later included, and in every session a call's user message comes
\* before the call's reply.  (That the reply of the first call can land behind
\* the reply of the second is the witness.)
C23_RepliesInSettlementOrder ==
    /\ [](\A c \in 1..Len(calls), i \in 1..Len(sessions) :
            \A u \in MessagesOf(sessions[i], c, "user"),
               b \in MessagesOf(sessions[i], c, "bot") : u < b)
    /\ [][\A c \in 1..Len(calls) :
            Settles(c) =>
                /\ Len(sessions') = Len(sessions)
                /\ \A i \in 1..Len(sessions) :
                    sessions[i].id = calls[c].sessionId =>
                        /\ sessions'[i].messages[Len(sessions'[i].messages)].call = c
                        /\ sessions'[i].messages[Len(sessions'[i].messages)].sender = "bot"
                        /\ SubSeq(sessions'[i].messages, 1, Len(sessions[i].messages))
                               = sessions[i].messages]_vars

\* two calls overlapped on one session and the reply to the first call stands
\* behind the reply to the second, each behind its own user message
C23_Witness ==
    /\ Len(calls) = 2
    /\ calls[1].sessionId = calls[2].sessionId
    /\ \E i \in 1..Len(sessions) :
        /\ Paired(sessions[i], 1) /\ Paired(sessions[i], 2)
        /\ \A first \in MessagesOf(sessions[i], 1, "bot"),
              second \in MessagesOf(sessions[i], 2, "bot") : second < first
        /\ \A asked \in MessagesOf(sessions[i], 1, "user"),
              second \in MessagesOf(sessions[i], 2, "user") : asked < second

----------------------------------------------------------------------------
(* Properties of mounting *)

\* the entry is not an object with an array of message objects
Malformed(entry) ==
    \/ entry = JsonNull
    \/ "messages" \notin DOMAIN entry
    \/ \E k \in 1..Len(entry.messages) : entry.messages[k] = JsonNull

\* the stored text does not parse, or not to an array of well-formed entries
Corrupt(blob) ==
    \/ blob = Unparseable
    \/ blob = NotArray
    \/ \E i \in 1..Len(blob) : Malformed(blob[i])

\* C24: over a stored text that is corrupt or holds a malformed entry, the
\* load effect raises nothing, logs a diagnostic, and leaves the collection
\* empty with no current session; and whatever the store holds, the
\* collection is empty or has one session for every entry of the stored
\* array, never a part of them.
C24_CorruptBlobLoadsNothing ==
    /\ "raised" \notin mount
    /\ currentSessionId = Null
    /\ Corrupt(stored) =>
        /\ sessions = <<>>
        /\ "load" \notin mount => "logged" \in mount
    /\ \/ sessions = <<>>
       \/ /\ Len(sessions) = Len(stored)
          /\ \A i \in 1..Len(sessions) : sessions[i].id = stored[i].id

\* the load effect has run over an array whose first entry is sound and whose
\* second is malformed: a diagnostic was logged and nothing was loaded
C24_Witness ==
    /\ "load" \notin mount
    /\ "logged" \in mount
    /\ Len(stored) = 2
    /\ ~Malformed(stored[1])
    /\ Malformed(stored[2])
    /\ sessions = <<>>

\* C28: over a text the save effect wrote for a non-empty collection, no
\* step of mounting changes the stored text, whichever of the two effects of
\* the first render runs first, and once the load effect has run the
\* collection is the one the text was written for.
C28_MountKeepsStoredCollection ==
    /\ [](\A c \in Collections \ { <<>> } :
            (stored = Serialize(c) /\ "load" \notin mount) => sessions = c)
    /\ [][(\E c \in Collections \ { <<>> } : stored = Serialize(c))
              => stored' = stored]_vars

\* mounting is over: two sessions were loaded and the store holds them
C28_Witness ==
    /\ mount = {}
    /\ Len(sessions) = 2
    /\ stored = Serialize(sessions)
    /\ sessions[1].messages # <<>>

----------------------------------------------------------------------------
(* Properties of the loading flag and of the entry points *)

InFlight(c) == calls[c].pc \in {"awaitApi", "awaitDelay"}

\* C25: the loading flag is true in every state in which a sendMessage call
\* is in flight (started and not yet settled), also when several calls
\* overlap and one of them has settled.
C25_LoadingWhileInFlight ==
    (\E c \in 1..Len(calls) : InFlight(c)) => isLoading

\* C26: handleQuickStart with no current session creates exactly one
\* session: the collection grows by one, the new session is current, and it
\* holds the query as its only message, a user message.
C26_QuickStartCreatesOneSession ==
    [][\A query \in Texts :
          (QuickStart(query) /\ currentSessionId = Null) =>
              /\ Len(sessions') = Len(sessions) + 1
              /\ currentSessionId' = Head(sessions').id
              /\ Len(Head(sessions').messages) = 1
              /\ Head(sessions').messages[1].sender = "user"
              /\ Head(sessions').messages[1].text = query]_vars

----------------------------------------------------------------------------
(* Properties of titles *)

\* the titles an edit can set; no message text gives one of them, and neither
\* does createNewSession
SetByRename == { Trim(title) : title \in { e \in EditTitles : Trim(e) # <<>> } }

\* C27: a title set by an explicit rename is never replaced by the automatic
\* title: over every step a session that carries a title set by a rename
\* still carries it (or the title of another rename), whatever is sent to the
\* session, its first message included.
C27_RenamedTitleStays ==
    [][\E kept \in Survivors :
          \A i \in 1..Len(kept) :
              kept[i].title \in SetByRename
                  => sessions'[Added(kept) + i].title \in SetByRename]_vars

----------------------------------------------------------------------------
(* Properties of message ids *)

\* C29: within a session all message ids are pairwise distinct, also when a
\* user message and an assistant message, or the user messages of two
\* overlapping calls, are created at the same or at adjacent clock values.
C29_MessageIdsDistinct ==
    \A i \in 1..Len(sessions) :
        \A k, l \in 1..Len(sessions[i].messages) :
            k # l => sessions[i].messages[k].id # sessions[i].messages[l].id

----------------------------------------------------------------------------
(* Properties of the entry points *)

\* a step of the user interface that calls sendMessage: a submitted text, a
\* quick start, an upload, a shared location or a voice transcript (the last
\* two are a lone sendMessage from the chat input)
UiEntry ==
    \/ HandleSubmit
    \/ HandleQuickStart
    \/ HandleFileUpload
    \/ ChatInputShown /\ SendMessage

\* C30: through the user interface at most one sendMessage is in flight at a
\* time: an entry point starts a call only while the loading flag is false
\* and no earlier call is still in flight, and it starts one call.
C30_OneCallAtATime ==
    [][UiEntry =>
          /\ ~isLoading
          /\ \A c \in 1..Len(calls) : ~InFlight(c)
          /\ Len(calls') = Len(calls) + 1]_vars

====
